---------------------------- MODULE Spec2Model ----------------------------
(***************************************************************************)
(* Model of src/modules/database.py: the lazily initialised Supabase       *)
(* client, the document table behind it, and the five document operations  *)
(* (save, list, get by id, delete, find similar).                          *)
(*                                                                         *)
(* Texts are sequences of one-character strings.  Python's None and the    *)
(* empty value are both falsy wherever the code tests them (`x or y`,      *)
(* `if not x`), so an omitted optional argument is the empty sequence.     *)
(* An Optional[Dict] result is a sequence of zero or one record.           *)
(***************************************************************************)
EXTENDS Integers, Sequences, FiniteSets, TLC

VARIABLES
    supabase,     \* the module global `supabase`: NoHandle (None) or a handle
    configured,   \* SUPABASE_URL and SUPABASE_KEY are both non-empty
    constructed,  \* how many times create_client has returned a client
    table,        \* rows of the "documents" table, in the store's scan order
    clock,        \* datetime.now(), in ticks
    last,         \* the last call: operation, arguments, outcome, return value,
                  \* and whether the id it names was stored before it
    hist,         \* per id: text and time of the last successful save, or <<>>
    pc,           \* per thread: position inside get_supabase_client
    calls,        \* per thread: calls of get_supabase_client begun
    got,          \* per thread: handle returned by its last call
    raced         \* two threads have been between the test and the assignment at once

vars == <<supabase, configured, constructed, table, clock, last, hist, pc, calls, got, raced>>

-----------------------------------------------------------------------------
(* Bounds of the model *)

MaxIds == 2
MaxClock == 2
TicksPerSec == 2
NumThreads == 2
MaxCalls == 2
MaxRows == 2
MaxDocs == 6
Extra == 5

(* Constants of the program *)

PreviewLen == 300
MinWords == 10
TopK == 5

NoHandle == 0

Ids == 1..MaxIds
Threads == 1..NumThreads

-----------------------------------------------------------------------------
(* Characters and str methods *)

Letters == <<"a","b","c","d","e","f","g","h","i","j","k","l","m",
             "n","o","p","q","r","s","t","u","v","w","x","y","z">>
UpperLetters == <<"A","B","C","D","E","F","G","H","I","J","K","L","M",
                  "N","O","P","Q","R","S","T","U","V","W","X","Y","Z">>
Digits == <<"0","1","2","3","4","5","6","7","8","9">>

IsSpace(c) == c \in {" ", "\n", "\t"}

LowerOf == [c \in {UpperLetters[i] : i \in 1..26} |->
               Letters[CHOOSE i \in 1..26 : UpperLetters[i] = c]]

LowerChar(c) == IF c \in DOMAIN LowerOf THEN LowerOf[c] ELSE c

\* str.lower()
Lower(s) == [i \in 1..Len(s) |-> LowerChar(s[i])]

\* str.split() with no argument: the maximal runs of non-whitespace.
\* A token is named by the index of its first character.
TokenStarts(s) ==
    {i \in 1..Len(s) : ~IsSpace(s[i]) /\ (i = 1 \/ IsSpace(s[i-1]))}

TokenEnd(s, i) ==
    CHOOSE j \in i..Len(s) :
        /\ \A k \in i..j : ~IsSpace(s[k])
        /\ (j = Len(s) \/ IsSpace(s[j+1]))

\* len(s.split())
SplitLen(s) == Cardinality(TokenStarts(s))

\* set(s.split())
SplitSet(s) == {SubSeq(s, i, TokenEnd(s, i)) : i \in TokenStarts(s)}

\* s[:n]
Slice(s, n) == SubSeq(s, 1, IF Len(s) < n THEN Len(s) ELSE n)

Ellipsis == <<".", ".", ".">>

\* Path(filename).suffix : the final component from its last dot on, when that
\* dot is neither its first nor its last character
PathName(f) ==
    LET slashes == {i \in 1..Len(f) : f[i] = "/"}
        from == IF slashes = {} THEN 1
                ELSE 1 + (CHOOSE i \in slashes : \A j \in slashes : j <= i)
    IN SubSeq(f, from, Len(f))

PathSuffix(f) ==
    LET name == PathName(f)
        dots == {i \in 1..Len(name) : name[i] = "."}
        d == IF dots = {} THEN 0 ELSE CHOOSE i \in dots : \A j \in dots : j <= i
    IN IF d > 1 /\ d < Len(name) THEN SubSeq(name, d, Len(name)) ELSE <<>>

\* json.dumps / json.loads on a flat dict of strings, kept as a sequence of
\* <<key, value>> pairs; the encoding is a sequence of lexemes
RECURSIVE JsonItems(_)
JsonItems(m) ==
    IF m = <<>> THEN <<>>
    ELSE <<m[1][1], ":", m[1][2]>>
         \o (IF Len(m) > 1 THEN <<",">> ELSE <<>>)
         \o JsonItems(Tail(m))

JsonDumps(m) == <<"{">> \o JsonItems(m) \o <<"}">>

JsonLoads(j) ==
    LET body == SubSeq(j, 2, Len(j) - 1)
        n == (Len(body) + 1) \div 4
    IN [k \in 1..n |-> <<body[4*k - 3], body[4*k - 1]>>]

\* datetime.isoformat(): fixed-width zero-padded fields, and the fraction is
\* left out when it is zero.  The date part is the same for every tick here.
IsoFormat(t) ==
    LET sec == t \div TicksPerSec
        frac == t % TicksPerSec
    IN <<Digits[(sec \div 10) + 1], Digits[(sec % 10) + 1]>>
       \o (IF frac = 0 THEN <<>> ELSE <<".", Digits[frac + 1]>>)

CharRank(c) ==
    IF c = "." THEN 0 ELSE CHOOSE i \in 1..10 : Digits[i] = c

\* text order of the store on the upload_date column
TextLess(a, b) ==
    \E k \in 1..(Len(b)) :
        /\ \A i \in 1..(k-1) : i <= Len(a) /\ a[i] = b[i]
        /\ (k > Len(a) \/ CharRank(a[k]) < CharRank(b[k]))

-----------------------------------------------------------------------------
(* The documents table *)

HasId(t, d) == \E i \in 1..Len(t) : t[i].id = d

RowsOf(t, d) == SelectSeq(t, LAMBDA r : r.id = d)

Without(t, d) == SelectSeq(t, LAMBDA r : r.id # d)

InsertAt(t, pos, r) == SubSeq(t, 1, pos - 1) \o <<r>> \o SubSeq(t, pos, Len(t))

\* table("documents").insert(row): what an upsert would be without the key
UpsertAsInsert(t, r, pos) == InsertAt(t, pos, r)

\* table("documents").upsert(row): insert, or replace the row with this
\* primary key; where the new row version lands in scan order is the store's
\* choice (pos, at most one past the other rows)
Upsert(t, r, pos) == InsertAt(Without(t, r.id), pos, r)

\* table("documents").delete().eq("id", d)
DeleteEq(t, d) == Without(t, d)

\* table("documents").select("*").eq("id", d)
SelectEq(t, d) == RowsOf(t, d)

Orderings(t) ==
    {[i \in 1..Len(t) |-> t[p[i]]] :
        p \in {q \in [1..Len(t) -> 1..Len(t)] :
                  \A i, j \in 1..Len(t) : i # j => q[i] # q[j]}}

\* the same select with desc=False
SelectOrderedAscending(t) ==
    {o \in Orderings(t) :
        \A i, j \in 1..Len(o) : i < j => ~TextLess(o[j].upload_date, o[i].upload_date)}

\* table("documents").select("*").order("upload_date", desc=True): any order
\* of the rows in which no row comes before a row with a later upload_date
SelectOrdered(t) ==
    {o \in Orderings(t) :
        \A i, j \in 1..Len(o) : i < j => ~TextLess(o[i].upload_date, o[j].upload_date)}

-----------------------------------------------------------------------------
(* get_supabase_client, as one uninterrupted call *)

\* the same call without the `supabase is None` test: it builds a client
\* whenever the configuration is present
get_supabase_client_uncached(sb, n, cfg, createOk) ==
    IF cfg
    THEN IF createOk
         THEN [client |-> n + 1, supabase |-> n + 1, constructed |-> n + 1, raised |-> FALSE]
         ELSE [client |-> sb, supabase |-> sb, constructed |-> n, raised |-> FALSE]
    ELSE [client |-> sb, supabase |-> sb, constructed |-> n, raised |-> FALSE]

\* sb: the global before the call; n: clients built so far; createOk: whether
\* create_client returns (TRUE) or raises (FALSE).  A new client is named by
\* its construction number.
get_supabase_client(sb, n, cfg, createOk) ==
    IF sb = NoHandle /\ cfg
    THEN IF createOk
         THEN [client |-> n + 1, supabase |-> n + 1, constructed |-> n + 1, raised |-> FALSE]
         ELSE [client |-> sb, supabase |-> sb, constructed |-> n, raised |-> FALSE]
    ELSE [client |-> sb, supabase |-> sb, constructed |-> n, raised |-> FALSE]

-----------------------------------------------------------------------------
(* Document storage functions.  client: what get_supabase_client returned;  *)
(* execOk: whether the store's execute() returns (TRUE) or raises (FALSE).  *)
(* Each returns its return value and whether an exception left the function.*)

\* the dict built by save_document
MakeRow(d, a, now) ==
    [id |-> d,
     filename |-> a.filename,
     file_path |-> a.file_path,
     upload_date |-> IsoFormat(now),
     file_type |-> IF a.file_type # <<>> THEN a.file_type ELSE Lower(PathSuffix(a.filename)),
     file_size |-> a.file_size,
     ocr_text |-> a.ocr_text,
     summary_json |-> JsonDumps(a.summary),
     metadata_json |-> JsonDumps(a.metadata)]

\* save_document whose except clause re-raises
save_document_reraising(client, t, d, a, now, execOk, pos) ==
    IF client = NoHandle THEN [ret |-> FALSE, raised |-> FALSE, table |-> t]
    ELSE IF execOk
         THEN [ret |-> TRUE, raised |-> FALSE, table |-> Upsert(t, MakeRow(d, a, now), pos)]
         ELSE [ret |-> FALSE, raised |-> TRUE, table |-> t]

save_document(client, t, d, a, now, execOk, pos) ==
    IF client = NoHandle THEN [ret |-> FALSE, raised |-> FALSE, table |-> t]
    ELSE IF execOk
         THEN [ret |-> TRUE, raised |-> FALSE, table |-> Upsert(t, MakeRow(d, a, now), pos)]
         ELSE [ret |-> FALSE, raised |-> FALSE, table |-> t]

\* text_preview cut one character late
TextPreviewOffByOne(text) ==
    IF text # <<>> /\ Len(text) > PreviewLen + 1
    THEN Slice(text, PreviewLen + 1) \o Ellipsis
    ELSE text

\* 'text_preview' of get_all_documents_from_db
TextPreview(text) ==
    IF text # <<>> /\ Len(text) > PreviewLen
    THEN Slice(text, PreviewLen) \o Ellipsis
    ELSE text

\* word_count as the number of characters
WordCountAsLen(text) == IF text # <<>> THEN Len(text) ELSE 0

\* 'word_count' of get_all_documents_from_db and get_document_by_id
WordCount(text) == IF text # <<>> THEN SplitLen(text) ELSE 0

\* 'title': filename, or the id when the filename is empty
Title(row) == IF row.filename # <<>> THEN row.filename ELSE row.id

PreviewOf(row) ==
    [doc_id |-> row.id,
     filename |-> row.filename,
     file_path |-> row.file_path,
     upload_date |-> row.upload_date,
     file_type |-> row.file_type,
     file_size |-> row.file_size,
     text_preview |-> TextPreview(row.ocr_text),
     word_count |-> WordCount(row.ocr_text),
     title |-> Title(row)]

\* data: the rows the ordered select returned
get_all_documents_from_db(client, data, execOk) ==
    IF client = NoHandle THEN [ret |-> <<>>, raised |-> FALSE]
    ELSE IF execOk
         THEN [ret |-> [i \in 1..Len(data) |-> PreviewOf(data[i])], raised |-> FALSE]
         ELSE [ret |-> <<>>, raised |-> FALSE]

DocumentOf(row) ==
    [doc_id |-> row.id,
     filename |-> row.filename,
     file_path |-> row.file_path,
     upload_date |-> row.upload_date,
     file_type |-> row.file_type,
     file_size |-> row.file_size,
     full_text |-> row.ocr_text,
     word_count |-> WordCount(row.ocr_text),
     title |-> Title(row),
     summary |-> IF row.summary_json # <<>> THEN JsonLoads(row.summary_json) ELSE <<>>,
     metadata |-> IF row.metadata_json # <<>> THEN JsonLoads(row.metadata_json) ELSE <<>>]

get_document_by_id(client, t, d, execOk) ==
    IF client = NoHandle THEN [ret |-> <<>>, raised |-> FALSE]
    ELSE IF execOk
         THEN IF Len(SelectEq(t, d)) > 0
              THEN [ret |-> <<DocumentOf(SelectEq(t, d)[1])>>, raised |-> FALSE]
              ELSE [ret |-> <<>>, raised |-> FALSE]
         ELSE [ret |-> <<>>, raised |-> FALSE]

\* delete_document that reports whether a row was there
delete_document_strict(client, t, d, execOk) ==
    IF client = NoHandle THEN [ret |-> FALSE, raised |-> FALSE, table |-> t]
    ELSE IF execOk
         THEN [ret |-> HasId(t, d), raised |-> FALSE, table |-> DeleteEq(t, d)]
         ELSE [ret |-> FALSE, raised |-> FALSE, table |-> t]

delete_document(client, t, d, execOk) ==
    IF client = NoHandle THEN [ret |-> FALSE, raised |-> FALSE, table |-> t]
    ELSE IF execOk
         THEN [ret |-> TRUE, raised |-> FALSE, table |-> DeleteEq(t, d)]
         ELSE [ret |-> FALSE, raised |-> FALSE, table |-> t]

-----------------------------------------------------------------------------
(* find_similar_documents *)

\* a threshold is the fraction num/den, den > 0; intersection/union >= threshold
AtLeast(inter, union, thr) == inter * thr.den >= thr.num * union

\* round(intersection / union * 100, 1), in tenths of a percent (ties to even)
RoundPercent(inter, union) ==
    LET q == (1000 * inter) \div union
        r == (1000 * inter) % union
    IN IF 2 * r > union THEN q + 1
       ELSE IF 2 * r < union THEN q
       ELSE IF q % 2 = 0 THEN q ELSE q + 1

\* `len(new_words) < 10`
CandidateTooShort(words) == Cardinality(words) < MinWords

\* the same test against 9
ExistingTooShortOffByOne(words) == Cardinality(words) < MinWords - 1

\* `len(existing_words) < 10`
ExistingTooShort(words) == Cardinality(words) < MinWords

\* the body of `for row in result.data`, from row i on; acc is similar_docs
RECURSIVE ScanRows(_, _, _, _, _)
ScanRows(data, i, new_words, thr, acc) ==
    IF i > Len(data) THEN acc
    ELSE LET row == data[i]
             existing_words == SplitSet(Lower(row.ocr_text))
             inter == Cardinality(new_words \cap existing_words)
             union == Cardinality(new_words \cup existing_words)
         IN IF row.ocr_text = <<>> THEN ScanRows(data, i + 1, new_words, thr, acc)
            ELSE IF ExistingTooShort(existing_words)
                 THEN ScanRows(data, i + 1, new_words, thr, acc)
            ELSE IF union > 0 /\ AtLeast(inter, union, thr)
                 THEN ScanRows(data, i + 1, new_words, thr,
                          Append(acc, [doc_id |-> row.id,
                                       filename |-> row.filename,
                                       similarity |-> RoundPercent(inter, union)]))
            ELSE ScanRows(data, i + 1, new_words, thr, acc)

\* list.sort(key=similarity, reverse=True): stable, so entries of equal
\* similarity keep the order in which the scan met them
RECURSIVE SortDescFrom(_, _, _)
SortDescFrom(docs, i, sorted) ==
    IF i > Len(docs) THEN sorted
    ELSE SortDescFrom(docs, i + 1,
             InsertAt(sorted,
                      1 + Cardinality({k \in 1..Len(sorted) :
                                          sorted[k].similarity >= docs[i].similarity}),
                      docs[i]))

\* a sort that forgets reverse=True
SortAscending(docs) ==
    LET d == SortDescFrom(docs, 1, <<>>)
    IN [i \in 1..Len(d) |-> d[Len(d) + 1 - i]]

SortDesc(docs) == SortDescFrom(docs, 1, <<>>)

find_similar_documents(client, t, new_text, thr, execOk) ==
    IF client = NoHandle \/ new_text = <<>> THEN [ret |-> <<>>, raised |-> FALSE]
    ELSE IF ~execOk THEN [ret |-> <<>>, raised |-> FALSE]
    ELSE IF t = <<>> THEN [ret |-> <<>>, raised |-> FALSE]
    ELSE LET new_words == SplitSet(Lower(new_text))
         IN IF CandidateTooShort(new_words) THEN [ret |-> <<>>, raised |-> FALSE]
            ELSE [ret |-> Slice(SortDesc(ScanRows(t, 1, new_words, thr, <<>>)), TopK),
                  raised |-> FALSE]

-----------------------------------------------------------------------------
(* Inputs *)

\* "a b c ..." : the letters lo..hi as one-letter words
Words(lo, hi) ==
    [i \in 1..(2 * (hi - lo + 1) - 1) |->
        IF i % 2 = 1 THEN Letters[lo + (i - 1) \div 2] ELSE " "]

\* the same words in upper case, separated by newlines, the first one repeated
UpperWords(lo, hi) ==
    [i \in 1..(2 * (hi - lo + 1) - 1) |->
        IF i % 2 = 1 THEN UpperLetters[lo + (i - 1) \div 2] ELSE "\n"]
    \o <<"\t", Letters[lo]>>

\* n characters: two-letter words separated by single spaces
Filler(n) == [i \in 1..n |-> IF i % 3 = 0 THEN " " ELSE Letters[1 + (i % 5)]]

TxtWords == <<" ","A","l","p","h","a"," "," ","b","e","t","a","\n","g","a","m","m","a"," ">>

SaveArgs ==
    { [filename |-> <<"S",".","P","D","F">>, file_path |-> "uploads/1", ocr_text |-> TxtWords,
       file_type |-> <<>>, file_size |-> 0, summary |-> <<>>, metadata |-> <<>>],
      [filename |-> <<>>, file_path |-> "uploads/2", ocr_text |-> <<>>,
       file_type |-> <<".","t","x","t">>, file_size |-> 7,
       summary |-> << <<"title", "memo">> >>, metadata |-> <<>>],
      [filename |-> <<"d","/","n",".","t",".","G","z">>, file_path |-> "uploads/3",
       ocr_text |-> Words(1, MinWords),
       file_type |-> <<>>, file_size |-> 19, summary |-> <<>>,
       metadata |-> << <<"lang", "en">>, <<"pages", "2">> >>] }

DefaultThreshold == [num |-> 7, den |-> 10]

Thresholds == {[num |-> 0, den |-> 1], DefaultThreshold, [num |-> 19, den |-> 20]}

Candidates == {<<>>, UpperWords(1, MinWords)}

\* stored texts of the similarity runs: the candidate's vocabulary, one word
\* more, one word fewer, and a disjoint vocabulary
SimTexts ==
    {Words(1, MinWords), Words(1, MinWords + 1), Words(1, MinWords - 1),
     Words(MinWords + 1, 2 * MinWords)}

SimCandidates == {UpperWords(1, MinWords), Words(1, MinWords - 1)}

PreviewTexts ==
    {<<>>, <<" ", "\n">>, Filler(PreviewLen - 1), Filler(PreviewLen),
     Filler(PreviewLen + 1), Filler(PreviewLen + Extra)}

\* a stored row with the given id, text and upload time: what save_document
\* stores for a file "f" with no summary and no metadata
SavedF == MakeRow(0, [filename |-> <<"f">>, file_path |-> "uploads/f", ocr_text |-> <<>>,
                      file_type |-> <<>>, file_size |-> 0,
                      summary |-> <<>>, metadata |-> <<>>], 0)

RowWith(d, text, t) ==
    [SavedF EXCEPT !.id = d, !.ocr_text = text, !.upload_date = IsoFormat(t)]

-----------------------------------------------------------------------------
(* The calls, each as one step of a single-threaded caller *)

Outcome(client, execOk) ==
    IF client = NoHandle THEN "unavailable" ELSE IF execOk THEN "ok" ELSE "error"

GetClientStep(createOk) ==
    LET g == get_supabase_client(supabase, constructed, configured, createOk)
    IN /\ supabase' = g.supabase
       /\ constructed' = g.constructed
       /\ last' = [op |-> "client", id |-> 0, arg |-> <<>>,
                   outcome |-> IF g.client = NoHandle THEN "unavailable" ELSE "ok",
                   ret |-> g.client, raised |-> g.raised, client |-> g.client,
                   existed |-> FALSE]
       /\ UNCHANGED <<configured, table, clock, hist, pc, calls, got, raced>>

SaveStep(d, a, createOk, execOk, pos) ==
    LET g == get_supabase_client(supabase, constructed, configured, createOk)
        r == save_document(g.client, table, d, a, clock, execOk, pos)
    IN /\ supabase' = g.supabase
       /\ constructed' = g.constructed
       /\ table' = r.table
       /\ last' = [op |-> "save", id |-> d, arg |-> a,
                   outcome |-> Outcome(g.client, execOk),
                   ret |-> r.ret, raised |-> r.raised, client |-> g.client,
                   existed |-> HasId(table, d)]
       /\ hist' = IF r.ret THEN [hist EXCEPT ![d] = <<[text |-> a.ocr_text, t |-> clock]>>]
                  ELSE hist
       /\ UNCHANGED <<configured, clock, pc, calls, got, raced>>

ListStep(createOk, execOk) ==
    LET g == get_supabase_client(supabase, constructed, configured, createOk)
    IN \E data \in SelectOrdered(table) :
        LET r == get_all_documents_from_db(g.client, data, execOk)
        IN /\ supabase' = g.supabase
           /\ constructed' = g.constructed
           /\ last' = [op |-> "list", id |-> 0, arg |-> <<>>,
                       outcome |-> Outcome(g.client, execOk),
                       ret |-> r.ret, raised |-> r.raised, client |-> g.client,
                       existed |-> FALSE]
           /\ UNCHANGED <<configured, table, clock, hist, pc, calls, got, raced>>

GetStep(d, createOk, execOk) ==
    LET g == get_supabase_client(supabase, constructed, configured, createOk)
        r == get_document_by_id(g.client, table, d, execOk)
    IN /\ supabase' = g.supabase
       /\ constructed' = g.constructed
       /\ last' = [op |-> "get", id |-> d, arg |-> <<>>,
                   outcome |-> Outcome(g.client, execOk),
                   ret |-> r.ret, raised |-> r.raised, client |-> g.client,
                   existed |-> HasId(table, d)]
       /\ UNCHANGED <<configured, table, clock, hist, pc, calls, got, raced>>

DeleteStep(d, createOk, execOk) ==
    LET g == get_supabase_client(supabase, constructed, configured, createOk)
        r == delete_document(g.client, table, d, execOk)
    IN /\ supabase' = g.supabase
       /\ constructed' = g.constructed
       /\ table' = r.table
       /\ last' = [op |-> "delete", id |-> d, arg |-> <<>>,
                   outcome |-> Outcome(g.client, execOk),
                   ret |-> r.ret, raised |-> r.raised, client |-> g.client,
                   existed |-> HasId(table, d)]
       /\ hist' = IF r.ret THEN [hist EXCEPT ![d] = <<>>] ELSE hist
       /\ UNCHANGED <<configured, clock, pc, calls, got, raced>>

SimilarStep(new_text, thr, createOk, execOk) ==
    LET g == get_supabase_client(supabase, constructed, configured, createOk)
        r == find_similar_documents(g.client, table, new_text, thr, execOk)
    IN /\ supabase' = g.supabase
       /\ constructed' = g.constructed
       /\ last' = [op |-> "similar", id |-> 0, arg |-> [text |-> new_text, threshold |-> thr],
                   outcome |-> Outcome(g.client, execOk \/ new_text = <<>>),
                   ret |-> r.ret, raised |-> r.raised, client |-> g.client,
                   existed |-> FALSE]
       /\ UNCHANGED <<configured, table, clock, hist, pc, calls, got, raced>>

\* time passes between calls
Tick ==
    /\ clock < MaxClock
    /\ clock' = clock + 1
    /\ last' = [op |-> "tick", id |-> 0, arg |-> <<>>, outcome |-> "ok",
                ret |-> <<>>, raised |-> FALSE, client |-> supabase, existed |-> FALSE]
    /\ UNCHANGED <<supabase, configured, constructed, table, hist, pc, calls, got, raced>>

Started ==
    /\ constructed = 0
    /\ clock = 0
    /\ last = [op |-> "init", id |-> 0, arg |-> <<>>, outcome |-> "ok",
               ret |-> <<>>, raised |-> FALSE, client |-> NoHandle, existed |-> FALSE]
    /\ hist = [d \in Ids |-> <<>>]
    /\ pc = [p \in Threads |-> "idle"]
    /\ calls = [p \in Threads |-> 0]
    /\ got = [p \in Threads |-> NoHandle]
    /\ raced = FALSE

\* after import: no client yet, the configuration either present or not, and
\* an empty documents table
Init ==
    /\ Started
    /\ supabase = NoHandle
    /\ configured \in BOOLEAN
    /\ table = <<>>

\* create_client is reached only while the global is unset and the
\* configuration present, execute() only with a client
CreateOutcomes == IF supabase = NoHandle /\ configured THEN BOOLEAN ELSE {TRUE}

ExecOutcomes == IF configured THEN BOOLEAN ELSE {TRUE}

Next ==
    \/ \E createOk \in CreateOutcomes : GetClientStep(createOk)
    \/ \E d \in Ids, a \in SaveArgs, createOk \in CreateOutcomes, execOk \in ExecOutcomes :
          \E pos \in 1..(Len(Without(table, d)) + 1) : SaveStep(d, a, createOk, execOk, pos)
    \/ \E createOk \in CreateOutcomes, execOk \in ExecOutcomes : ListStep(createOk, execOk)
    \/ \E d \in Ids, createOk \in CreateOutcomes, execOk \in ExecOutcomes :
          GetStep(d, createOk, execOk)
    \/ \E d \in Ids, createOk \in CreateOutcomes, execOk \in ExecOutcomes :
          DeleteStep(d, createOk, execOk)
    \/ \E c \in Candidates, createOk \in CreateOutcomes, execOk \in ExecOutcomes :
          SimilarStep(c, DefaultThreshold, createOk, execOk)

\* the document calls of one single-threaded process, in any order, all at
\* one reading of the clock
Spec == Init /\ [][Next]_vars

-----------------------------------------------------------------------------
(* Saves, deletes and listings spread over time *)

TimeArgs == {a \in SaveArgs : a.file_size = 0}

NextTime ==
    \/ \E d \in Ids, a \in TimeArgs, createOk \in CreateOutcomes, execOk \in ExecOutcomes :
          \E pos \in 1..(Len(Without(table, d)) + 1) : SaveStep(d, a, createOk, execOk, pos)
    \/ \E d \in Ids, createOk \in CreateOutcomes : DeleteStep(d, createOk, TRUE)
    \/ \E createOk \in CreateOutcomes, execOk \in ExecOutcomes : ListStep(createOk, execOk)
    \/ Tick

SpecTime == Init /\ [][NextTime]_vars

-----------------------------------------------------------------------------
(* find_similar_documents over a drawn table.  The rows are drawn in scan    *)
(* order; which id sits where does not matter to the function, so row i     *)
(* carries id i.                                                            *)

InitSim ==
    /\ Started
    /\ supabase = NoHandle
    /\ configured = TRUE
    /\ \E n \in 0..MaxDocs : \E f \in [1..n -> SimTexts] :
          table = [i \in 1..n |-> RowWith(i, f[i], 0)]

\* one query of each drawn table, answered by the store
NextSim ==
    /\ last.op = "init"
    /\ \E c \in SimCandidates, thr \in Thresholds : SimilarStep(c, thr, TRUE, TRUE)

SpecSim == InitSim /\ [][NextSim]_vars

-----------------------------------------------------------------------------
(* get_all_documents_from_db over a drawn table of long and short texts,    *)
(* saved one tick apart                                                     *)

InitPreview ==
    /\ Started
    /\ supabase = NoHandle
    /\ configured = TRUE
    /\ \E n \in 0..MaxRows : \E f \in [1..n -> PreviewTexts] :
          table = [i \in 1..n |-> RowWith(i, f[i], i - 1)]

NextPreview ==
    \E createOk \in CreateOutcomes, execOk \in BOOLEAN : ListStep(createOk, execOk)

SpecPreview == InitPreview /\ [][NextPreview]_vars

-----------------------------------------------------------------------------
(* get_supabase_client called from several threads: the test on the global, *)
(* the call of create_client and the assignment, and the return are         *)
(* separate steps, and threads interleave between them.                     *)

\* `supabase = create_client(...)`: the new client replaces whatever is there
StoreClient(sb, n) == n + 1

\* the test with the `supabase is None` conjunct left out
MustCreateAlways(sb, cfg) == cfg

\* `if supabase is None and SUPABASE_URL and SUPABASE_KEY`
MustCreate(sb, cfg) == sb = NoHandle /\ cfg

Call(p) ==
    /\ pc[p] = "idle"
    /\ calls[p] < MaxCalls
    /\ calls' = [calls EXCEPT ![p] = @ + 1]
    /\ pc' = [pc EXCEPT ![p] = "test"]
    /\ UNCHANGED <<supabase, configured, constructed, table, clock, last, hist, got, raced>>

Test(p) ==
    /\ pc[p] = "test"
    /\ pc' = [pc EXCEPT ![p] = IF MustCreate(supabase, configured) THEN "create" ELSE "return"]
    /\ raced' = (raced \/ (MustCreate(supabase, configured)
                            /\ \E q \in Threads \ {p} : pc[q] = "create"))
    /\ UNCHANGED <<supabase, configured, constructed, table, clock, last, hist, calls, got>>

Create(p, createOk) ==
    /\ pc[p] = "create"
    /\ IF createOk
       THEN /\ supabase' = StoreClient(supabase, constructed)
            /\ constructed' = constructed + 1
       ELSE UNCHANGED <<supabase, constructed>>
    /\ pc' = [pc EXCEPT ![p] = "return"]
    /\ UNCHANGED <<configured, table, clock, last, hist, calls, got, raced>>

Return(p) ==
    /\ pc[p] = "return"
    /\ got' = [got EXCEPT ![p] = supabase]
    /\ pc' = [pc EXCEPT ![p] = "idle"]
    /\ UNCHANGED <<supabase, configured, constructed, table, clock, last, hist, calls, raced>>

InitConc == Init

NextConc ==
    \E p \in Threads :
        \/ Call(p)
        \/ Test(p)
        \/ \E createOk \in BOOLEAN : Create(p, createOk)
        \/ Return(p)

SpecConc == InitConc /\ [][NextConc]_vars

-----------------------------------------------------------------------------
(* Properties *)

Range(q) == {q[i] : i \in 1..Len(q)}

\* the whitespace-delimited tokens of a text, counted by their last characters
TokenCount(text) ==
    Cardinality({i \in 1..Len(text) :
                    ~IsSpace(text[i]) /\ (i = Len(text) \/ IsSpace(text[i+1]))})


IsSuffixOf(x, y) == Len(x) <= Len(y) /\ SubSeq(y, Len(y) - Len(x) + 1, Len(y)) = x

\* a lower-cased extension of the file name: empty, or its last dot and what follows
IsExtensionOf(ft, filename) ==
    /\ IsSuffixOf(ft, Lower(filename))
    /\ \/ ft = <<>> /\ (filename = <<>> \/ "." \notin Range(PathName(filename)))
       \/ Len(ft) > 1 /\ ft[1] = "." /\ \A i \in 2..Len(ft) : ft[i] \notin {".", "/"}

\* C1: Save is an upsert keyed by id.  The table never holds two rows with
\* one id, and right after a successful Save(d, fields) the one row with id d
\* carries the fields of that Save: filename, path, size and text as given,
\* the file type given or else the lower-cased extension of the filename, the
\* summary and metadata maps (empty when omitted) in their encoding, and the
\* time of the call.  Saving the same id and fields again leaves that one row.
C1_SaveIsUpsert ==
    /\ \A d \in Ids : Len(RowsOf(table, d)) <= 1
    /\ (last.op = "save" /\ last.ret) =>
          /\ Len(RowsOf(table, last.id)) = 1
          /\ LET row == RowsOf(table, last.id)[1]
                 a == last.arg
             IN /\ row.filename = a.filename
                /\ row.file_path = a.file_path
                /\ row.file_size = a.file_size
                /\ row.ocr_text = a.ocr_text
                /\ IF a.file_type # <<>> THEN row.file_type = a.file_type
                   ELSE IsExtensionOf(row.file_type, a.filename)
                /\ JsonLoads(row.summary_json) = a.summary
                /\ JsonLoads(row.metadata_json) = a.metadata
                /\ row.upload_date = IsoFormat(clock)

\* a successful Save of an id that was already stored, beside another record
C1_Witness ==
    /\ last.op = "save" /\ last.ret /\ last.existed
    /\ Len(table) = 2
    /\ last.arg.file_type = <<>> /\ RowsOf(table, last.id)[1].file_type = <<".", "g", "z">>

\* C2: round trip.  With the store available, a GetByID(d) that follows a
\* successful Save of d with text t of at least one word, with no Save or
\* Delete of d in between, returns a record whose full_text is t and whose
\* word_count is the number of whitespace-delimited tokens of t.
C2_RoundTrip ==
    (/\ last.op = "get" /\ last.outcome = "ok"
     /\ hist[last.id] # <<>>
     /\ TokenCount(hist[last.id][1].text) >= 1)
    => /\ Len(last.ret) = 1
       /\ last.ret[1].doc_id = last.id
       /\ last.ret[1].full_text = hist[last.id][1].text
       /\ last.ret[1].word_count = TokenCount(hist[last.id][1].text)

\* a fetched text of three words with doubled, leading and trailing whitespace
C2_Witness ==
    /\ last.op = "get" /\ last.outcome = "ok"
    /\ hist[last.id] # <<>>
    /\ hist[last.id][1].text = TxtWords
    /\ Len(last.ret) = 1 /\ last.ret[1].word_count = 3

\* C4: Delete(d) on an available store returns true whether or not d is
\* stored; it removes the row with id d if there is one and leaves every
\* other row as it was (so it changes nothing when d is absent); it returns
\* false only when the store is unavailable or the call to it failed.
C4_DeleteIfPresent ==
    [][last'.op = "delete" =>
          /\ last'.outcome = "ok" =>
                /\ last'.ret = TRUE
                /\ Range(table') = {r \in Range(table) : r.id # last'.id}
                /\ Len(table') = Len(table) - (IF HasId(table, last'.id) THEN 1 ELSE 0)
                /\ (~HasId(table, last'.id) => table' = table)
          /\ last'.ret = FALSE => last'.outcome \in {"unavailable", "error"}
          /\ last'.outcome # "ok" => last'.ret = FALSE]_vars

\* a successful Delete of an id that was not stored, beside a stored record
C4_Witness ==
    /\ last.op = "delete" /\ last.ret = TRUE /\ ~last.existed
    /\ table # <<>>

\* C5: no document operation raises.  When the store is unavailable or the
\* call to it fails, Save and Delete return false, GetByID returns absent,
\* List and FindSimilar return the empty sequence, and the table is as before.
C5_FailuresAreSentinels ==
    [][/\ ~last'.raised
       /\ last'.outcome # "ok" =>
             /\ table' = table
             /\ last'.op \in {"save", "delete"} => last'.ret = FALSE
             /\ last'.op \in {"get", "list", "similar"} => last'.ret = <<>>]_vars

\* a Save whose call to the store failed, with a record already stored
C5_Witness ==
    /\ last.op = "save" /\ last.outcome = "error" /\ last.ret = FALSE /\ ~last.raised
    /\ table # <<>>

\* C6: GetClient caches the handle.  In calls that do not overlap, a client is
\* built at most once; every call returns what the global holds after it, so
\* once a client is built every later call returns that client; with no
\* configuration, or when building fails, the call returns None and does not
\* raise.
C6_ClientBuiltOnce ==
    /\ constructed <= 1
    /\ supabase # NoHandle => constructed = 1 /\ supabase = 1
    /\ ~configured => supabase = NoHandle
    /\ last.op # "init" => /\ last.client = supabase
                           /\ ~last.raised
                           /\ (last.outcome = "unavailable") = (last.client = NoHandle)

\* a direct call that returns the client some earlier call built
C6_Witness ==
    /\ last.op = "client" /\ last.client = 1 /\ constructed = 1
    /\ table # <<>>


SavedAt(d) == hist[d][1].t

\* C3: List returns every stored record exactly once, most recent upload
\* first: a record saved at a later time than another comes before it, and a
\* record saved later than every other stored record is List()[0].
C3_ListNewestFirst ==
    (last.op = "list" /\ last.outcome = "ok") =>
        /\ Len(last.ret) = Len(table)
        /\ \A r \in Range(table) :
              Cardinality({i \in 1..Len(last.ret) : last.ret[i].doc_id = r.id}) = 1
        /\ \A i, j \in 1..Len(last.ret) :
              SavedAt(last.ret[j].doc_id) > SavedAt(last.ret[i].doc_id) => j < i
        /\ \A r \in Range(table) :
              (\A q \in Range(table) : q.id # r.id => SavedAt(r.id) > SavedAt(q.id))
              => last.ret[1].doc_id = r.id

\* a listing of two records in which the one saved a tick later, on a whole
\* second, comes first though it sits later in the table
C3_Witness ==
    /\ last.op = "list" /\ last.outcome = "ok"
    /\ Len(last.ret) = 2
    /\ SavedAt(last.ret[1].doc_id) = TicksPerSec
    /\ SavedAt(last.ret[2].doc_id) = TicksPerSec - 1
    /\ table[2].id = last.ret[1].doc_id

\* C7: the lazy initialisation is a test followed by a construction, with no
\* mutual exclusion.  Threads whose first calls overlap can each find the
\* global unset and each build a client, the later one replacing the earlier:
\* the global always holds the client built last, and a second client is built
\* only when two threads were between the test and the assignment at once.
C7_CheckThenCreateRaces ==
    /\ supabase # NoHandle => supabase = constructed
    /\ constructed >= 2 => raced
    /\ \A p \in Threads : pc[p] = "create" => configured

\* two clients were built and the global holds the second
C7_Witness ==
    /\ constructed = 2 /\ supabase = 2 /\ raced
    /\ \E p \in Threads : pc[p] = "idle" /\ got[p] = 1

-----------------------------------------------------------------------------
(* Properties of find_similar_documents *)

RowOf(d) == RowsOf(table, d)[1]

\* the case-folded whitespace token set of each text of these runs
TokenSetOf == [text \in SimTexts \cup SimCandidates |-> SplitSet(Lower(text))]

WordsOf(text) == TokenSetOf[text]

\* the Jaccard similarity of the candidate and a stored text is at least thr
Reaches(cand, text, thr) ==
    /\ WordsOf(cand) \cup WordsOf(text) # {}
    /\ Cardinality(WordsOf(cand) \cap WordsOf(text)) * thr.den
          >= thr.num * Cardinality(WordsOf(cand) \cup WordsOf(text))

\* the number of distinct case-folded tokens of a text
DistinctTokens(text) == Cardinality(WordsOf(text))

\* the similarity reported for a stored text: the percentage to one decimal,
\* in tenths of a percent
Score(cand, text) ==
    RoundPercent(Cardinality(WordsOf(cand) \cap WordsOf(text)),
                 Cardinality(WordsOf(cand) \cup WordsOf(text)))

\* what C8 says of a result, for the stored rows counted as eligible
RankedTopK(ret, cand, thr, eligible) ==
    /\ Len(ret) <= TopK
    /\ \A i, j \in 1..Len(ret) : i < j =>
          /\ ret[i].similarity >= ret[j].similarity
          /\ ret[i].doc_id # ret[j].doc_id
    /\ \A i \in 1..Len(ret) :
          /\ \E r \in eligible : r.id = ret[i].doc_id
          /\ Reaches(cand, RowOf(ret[i].doc_id).ocr_text, thr)
          /\ ret[i].similarity = Score(cand, RowOf(ret[i].doc_id).ocr_text)
    /\ \A r \in eligible :
          (\A i \in 1..Len(ret) : ret[i].doc_id # r.id) =>
              /\ Len(ret) = TopK
              /\ \A i \in 1..Len(ret) : ret[i].similarity >= Score(cand, r.ocr_text)
    /\ \A i \in 1..Len(ret) :
          LET text == RowOf(ret[i].doc_id).ocr_text
          IN /\ WordsOf(text) = WordsOf(cand) => ret[i].similarity = 1000
             /\ WordsOf(text) \cap WordsOf(cand) = {} =>
                   ret[i].similarity = 0 /\ thr.num = 0

SimilarAnswered ==
    /\ last.op = "similar" /\ last.outcome = "ok"
    /\ DistinctTokens(last.arg.text) >= MinWords

\* C8 as amended: for a candidate of at least 10 distinct tokens, FindSimilar
\* returns the up-to-5 highest-scoring stored documents among those that have
\* at least 10 distinct tokens themselves and whose Jaccard similarity with
\* the candidate is >= threshold: at most 5 entries, sorted by the reported
\* similarity descending, none below the threshold, a document of that kind
\* left out only when 5 returned ones report at least its similarity;
\* identical token sets report 100.0, disjoint ones 0.0 and are left out for
\* any threshold > 0.
C8_TopFiveOfEligible ==
    SimilarAnswered =>
        RankedTopK(last.ret, last.arg.text, last.arg.threshold,
                   {r \in Range(table) :
                       /\ DistinctTokens(r.ocr_text) >= MinWords
                       /\ Reaches(last.arg.text, r.ocr_text, last.arg.threshold)})

\* C8 as stated: the same, among all stored documents whose Jaccard
\* similarity with the candidate is >= threshold
C8_TopFiveOfAll ==
    SimilarAnswered =>
        RankedTopK(last.ret, last.arg.text, last.arg.threshold,
                   {r \in Range(table) :
                       Reaches(last.arg.text, r.ocr_text, last.arg.threshold)})

\* six stored documents reach the threshold, five are returned, with two
\* different similarities among them
C8_Witness ==
    /\ SimilarAnswered
    /\ Len(last.ret) = TopK
    /\ last.ret[1].similarity > last.ret[TopK].similarity
    /\ Cardinality({r \in Range(table) :
                       /\ DistinctTokens(r.ocr_text) >= MinWords
                       /\ Reaches(last.arg.text, r.ocr_text, last.arg.threshold)}) > TopK

\* C9: short texts are excluded at every threshold, 0 included.  A candidate
\* of fewer than 10 distinct case-folded tokens gets the empty result, and no
\* stored document of fewer than 10 distinct case-folded tokens is returned.
C9_ShortTextsExcluded ==
    last.op = "similar" =>
        /\ DistinctTokens(last.arg.text) < MinWords => last.ret = <<>>
        /\ \A i \in 1..Len(last.ret) :
              /\ HasId(table, last.ret[i].doc_id)
              /\ DistinctTokens(RowOf(last.ret[i].doc_id).ocr_text) >= MinWords

\* at threshold 0 every stored document is returned but the one of 9 words,
\* nine tenths of which the candidate shares
C9_Witness ==
    /\ last.op = "similar" /\ last.outcome = "ok"
    /\ last.arg.threshold.num = 0
    /\ Len(last.ret) = Len(table) - 1
    /\ Len(last.ret) > 0
    /\ \E r \in Range(table) :
          /\ DistinctTokens(r.ocr_text) = MinWords - 1
          /\ Reaches(last.arg.text, r.ocr_text, DefaultThreshold)

\* C10: in List, text_preview is the text itself when it has at most 300
\* characters, and its first 300 characters followed by "..." when it has
\* more; word_count is the number of whitespace-delimited tokens of the whole
\* text, 0 for the empty text.
C10_PreviewTruncation ==
    (last.op = "list" /\ last.outcome = "ok") =>
        /\ Len(last.ret) = Len(table)
        /\ \A i \in 1..Len(last.ret) :
              LET text == RowOf(last.ret[i].doc_id).ocr_text
                  pre == last.ret[i].text_preview
              IN /\ Len(text) <= PreviewLen => pre = text
                 /\ Len(text) > PreviewLen =>
                       /\ Len(pre) = PreviewLen + 3
                       /\ \A k \in 1..PreviewLen : pre[k] = text[k]
                       /\ \A k \in (PreviewLen + 1)..(PreviewLen + 3) : pre[k] = "."
                 /\ last.ret[i].word_count = TokenCount(text)
                 /\ text = <<>> => last.ret[i].word_count = 0

\* a listing with a text one character over the limit, cut, beside one of
\* exactly the limit, whole
C10_Witness ==
    /\ last.op = "list" /\ last.outcome = "ok"
    /\ \E i, j \in 1..Len(last.ret) :
          /\ Len(RowOf(last.ret[i].doc_id).ocr_text) = PreviewLen + 1
          /\ Len(last.ret[i].text_preview) = PreviewLen + 3
          /\ Len(RowOf(last.ret[j].doc_id).ocr_text) = PreviewLen
          /\ last.ret[j].text_preview = RowOf(last.ret[j].doc_id).ocr_text
          /\ last.ret[j].word_count = PreviewLen \div 3

=============================================================================
